---- MODULE Spec2Model ----
(***************************************************************************)
(* A model of SudokuSolver.cpp: the recursive backtracking search          *)
(* solve/attempt over a 9x9 grid, with the row, column and sub-grid        *)
(* duplicate checks.  The recursion of attempt is an explicit stack of     *)
(* frames; each frame holds the callee's own copies of r and c, its loop   *)
(* counter i, its local solved and the place it is at.                     *)
(***************************************************************************)
EXTENDS Integers, Sequences, FiniteSets, TLC

\* ------------------------------------------------------------ constants

PUZZLE_SIZE == 9
SUBGRID_SIZE == 3
UNKOWN_VALUE == 0

\* The largest number of cells of BlankCells an input grid leaves unknown.
MaxBlank == 4

Idx == 0 .. (PUZZLE_SIZE - 1)
Cells == Idx \X Idx

VARIABLES
    puzzle,   \* Grid<int> puzzle: puzzle[r][c]
    stack,    \* the active calls of attempt, outermost first
    pc,       \* main: "start" before solve(puzzle), "run" inside it, "done" after
    result,   \* the value solve returned (read once pc = "done")
    input,    \* the grid as addValues left it (never changed)
    wrote     \* whether attempt has assigned to a cell of the grid

vars == <<puzzle, stack, pc, result, input, wrote>>

\* ------------------------------------------------------------ the grid

\* Grid<int>::inBounds
inBounds(r, c) == r >= 0 /\ c >= 0 /\ r < PUZZLE_SIZE /\ c < PUZZLE_SIZE

\* puzzle[r][c] = v
SetCell(g, r, c, v) == [g EXCEPT ![r][c] = v]

\* ------------------------------------------------------------ the checks

\* isDuplRow scanning only the cells to the left of (r, c).
isDuplRowLeftOnly(g, r, c) ==
    \E i \in 0 .. (c - 1) : g[r][i] = g[r][c] /\ i # c

isDuplRow(g, r, c) ==
    \E i \in 0 .. (PUZZLE_SIZE - 1) : g[r][i] = g[r][c] /\ i # c

\* isDuplCol scanning only the rows above r.
isDuplColAboveOnly(g, r, c) ==
    \E i \in 0 .. (r - 1) : g[i][c] = g[r][c] /\ i # r

isDuplCol(g, r, c) ==
    \E i \in 0 .. (PUZZLE_SIZE - 1) : g[i][c] = g[r][c] /\ i # r

\* isDuplSubGrid with the column loop ending one column early.
isDuplSubGridShortCol(g, r, c) ==
    LET subGridRow == r \div SUBGRID_SIZE
        subGridCol == c \div SUBGRID_SIZE
    IN  \E row \in (subGridRow * SUBGRID_SIZE) .. ((subGridRow + 1) * SUBGRID_SIZE - 1) :
        \E col \in (subGridCol * SUBGRID_SIZE) .. ((subGridCol + 1) * SUBGRID_SIZE - 2) :
            r # row /\ c # col /\ g[r][c] = g[row][col]

isDuplSubGrid(g, r, c) ==
    LET subGridRow == r \div SUBGRID_SIZE
        subGridCol == c \div SUBGRID_SIZE
    IN  \E row \in (subGridRow * SUBGRID_SIZE) .. ((subGridRow + 1) * SUBGRID_SIZE - 1) :
        \E col \in (subGridCol * SUBGRID_SIZE) .. ((subGridCol + 1) * SUBGRID_SIZE - 1) :
            r # row /\ c # col /\ g[r][c] = g[row][col]

\* isValid without its negation.
isValidNotNegated(g, r, c) ==
    isDuplRow(g, r, c) \/ isDuplCol(g, r, c) \/ isDuplSubGrid(g, r, c)

isValid(g, r, c) ==
    ~(isDuplRow(g, r, c) \/ isDuplCol(g, r, c) \/ isDuplSubGrid(g, r, c))

\* ------------------------------------------------------------ positions

\* nextPos wrapping one column early.
nextPosWrapsEarly(r, c) ==
    IF c + 1 = PUZZLE_SIZE - 1 THEN <<r + 1, 0>> ELSE <<r, c + 1>>

nextPos(r, c) ==
    IF c + 1 = PUZZLE_SIZE THEN <<r + 1, 0>> ELSE <<r, c + 1>>

prevPos(r, c) ==
    IF c - 1 = -1 THEN <<r - 1, PUZZLE_SIZE - 1>> ELSE <<r, c - 1>>

\* ------------------------------------------------------------ attempt

\* The test of line 76 always true: every cell is tried.
AlwaysUnknown(g, r, c) == TRUE

\* The test of line 76: the cell is tried only when it holds UNKOWN_VALUE.
IsUnknown(g, r, c) == g[r][c] = UNKOWN_VALUE

\* The loop of line 77: its first candidate, its bound and its increment.
FirstCandidate == 1
LoopContinues(i) == i <= PUZZLE_SIZE
NextCandidate(i) == i + 1

\* Line 87 left out: the last candidate stays in the cell.
KeepLastCandidate(g, r, c, solved) == g

\* Line 87: the cell is reset when no candidate led to a solution.
ResetIfUnsolved(g, r, c, solved) ==
    IF ~solved THEN SetCell(g, r, c, UNKOWN_VALUE) ELSE g

\* The final test of line 72.
FinalCheck(g) == isValid(g, PUZZLE_SIZE - 1, PUZZLE_SIZE - 1)

\* A new activation of attempt(puzzle, r, c).
Frame(r, c) == [r |-> r, c |-> c, i |-> 0, solved |-> FALSE, pc |-> "entry"]

Top == stack[Len(stack)]
Below == SubSeq(stack, 1, Len(stack) - 1)

\* attempt(puzzle, r, c) is called by the frame on top, which becomes `caller`.
Call(caller, r, c) == Below \o <<caller, Frame(r, c)>>

\* The frame on top returns val: the caller continues after its call, or solve returns.
Return(val) ==
    IF Len(stack) = 1
    THEN /\ stack' = <<>>
         /\ pc' = "done"
         /\ result' = val
    ELSE LET caller == stack[Len(stack) - 1]
             rest == SubSeq(stack, 1, Len(stack) - 2)
             back == prevPos(caller.r, caller.c)
         IN  /\ stack' =
                  IF caller.pc = "if_call"
                  THEN rest \o <<[caller EXCEPT !.solved = @ \/ val,
                                                !.r = back[1], !.c = back[2],
                                                !.i = NextCandidate(@),
                                                !.pc = "loop"]>>
                  ELSE rest \o <<[caller EXCEPT !.solved = @ \/ val,
                                                !.pc = "else_ret"]>>
             /\ UNCHANGED <<pc, result>>

\* solve(puzzle): return attempt(puzzle, 0, 0)
Solve ==
    /\ pc = "start"
    /\ pc' = "run"
    /\ stack' = <<Frame(0, 0)>>
    /\ UNCHANGED <<puzzle, result, input, wrote>>

\* Lines 71-74: past the last cell.
AttemptOutOfBounds ==
    /\ pc = "run" /\ Top.pc = "entry"
    /\ ~inBounds(Top.r, Top.c)
    /\ Return(FinalCheck(puzzle))
    /\ UNCHANGED <<puzzle, input, wrote>>

\* Lines 88-90: a filled cell is skipped.
AttemptFilled ==
    /\ pc = "run" /\ Top.pc = "entry"
    /\ inBounds(Top.r, Top.c)
    /\ ~IsUnknown(puzzle, Top.r, Top.c)
    /\ LET n == nextPos(Top.r, Top.c)
       IN  stack' = Call([Top EXCEPT !.r = n[1], !.c = n[2], !.pc = "else_call"],
                         n[1], n[2])
    /\ UNCHANGED <<puzzle, pc, result, input, wrote>>

\* Lines 76-77: an unknown cell starts its loop.
AttemptUnknown ==
    /\ pc = "run" /\ Top.pc = "entry"
    /\ inBounds(Top.r, Top.c)
    /\ IsUnknown(puzzle, Top.r, Top.c)
    /\ stack' = Below \o <<[Top EXCEPT !.i = FirstCandidate, !.pc = "loop"]>>
    /\ UNCHANGED <<puzzle, pc, result, input, wrote>>

\* Lines 78-84: one iteration with solved still false.
LoopTry ==
    /\ pc = "run" /\ Top.pc = "loop"
    /\ LoopContinues(Top.i)
    /\ ~Top.solved
    /\ LET g == SetCell(puzzle, Top.r, Top.c, Top.i)
           n == nextPos(Top.r, Top.c)
       IN  /\ puzzle' = g
           /\ stack' =
                IF isValid(g, Top.r, Top.c)
                THEN Call([Top EXCEPT !.r = n[1], !.c = n[2], !.pc = "if_call"],
                          n[1], n[2])
                ELSE Below \o <<[Top EXCEPT !.i = NextCandidate(@)]>>
    /\ wrote' = TRUE
    /\ UNCHANGED <<pc, result, input>>

\* Line 78: an iteration once solved is true does nothing.
LoopSkip ==
    /\ pc = "run" /\ Top.pc = "loop"
    /\ LoopContinues(Top.i)
    /\ Top.solved
    /\ stack' = Below \o <<[Top EXCEPT !.i = NextCandidate(@)]>>
    /\ UNCHANGED <<puzzle, pc, result, input, wrote>>

\* Lines 87 and 92: the loop is over.
LoopExit ==
    /\ pc = "run" /\ Top.pc = "loop"
    /\ ~LoopContinues(Top.i)
    /\ puzzle' = ResetIfUnsolved(puzzle, Top.r, Top.c, Top.solved)
    /\ wrote' = (wrote \/ ~Top.solved)
    /\ Return(Top.solved)
    /\ UNCHANGED input

\* Line 92 after the call of line 90.
ElseReturn ==
    /\ pc = "run" /\ Top.pc = "else_ret"
    /\ Return(Top.solved)
    /\ UNCHANGED <<puzzle, input, wrote>>

\* ------------------------------------------------------------ inputs

\* A solved grid; the inputs are made from it.
Base ==
    LET rows == << <<5, 3, 4, 6, 7, 8, 9, 1, 2>>,
                   <<6, 7, 2, 1, 9, 5, 3, 4, 8>>,
                   <<1, 9, 8, 3, 4, 2, 5, 6, 7>>,
                   <<8, 5, 9, 7, 6, 1, 4, 2, 3>>,
                   <<4, 2, 6, 8, 5, 3, 7, 9, 1>>,
                   <<7, 1, 3, 9, 2, 4, 8, 5, 6>>,
                   <<9, 6, 1, 5, 3, 7, 2, 8, 4>>,
                   <<2, 8, 7, 4, 1, 9, 6, 3, 5>>,
                   <<3, 4, 5, 2, 8, 6, 1, 7, 9>> >>
    IN  [r \in Idx |-> [c \in Idx |-> rows[r + 1][c + 1]]]

\* The cells an input may leave unknown, and the cells it may overwrite.
BlankCells == {<<0, 0>>, <<2, 4>>, <<2, 5>>, <<5, 3>>, <<5, 4>>, <<5, 5>>, <<8, 8>>}
ClueCells == {<<0, 1>>, <<2, 3>>, <<8, 8>>}

BlankSets == {B \in SUBSET BlankCells : Cardinality(B) <= MaxBlank}
Overwrites == {<<>>} \cup {<<p, v>> : p \in ClueCells, v \in 1 .. PUZZLE_SIZE}

\* Base with the cells of B unknown and, unless o is <<>>, cell o[1] holding o[2].
InputGrid(B, o) ==
    [r \in Idx |-> [c \in Idx |->
        IF o # <<>> /\ o[1] = <<r, c>> THEN o[2]
        ELSE IF <<r, c>> \in B THEN UNKOWN_VALUE
        ELSE Base[r][c]]]

Init ==
    /\ \E B \in BlankSets, o \in Overwrites : puzzle = InputGrid(B, o)
    /\ input = puzzle
    /\ stack = <<>>
    /\ pc = "start"
    /\ result = FALSE
    /\ wrote = FALSE

Next ==
    \/ Solve
    \/ AttemptOutOfBounds
    \/ AttemptFilled
    \/ AttemptUnknown
    \/ LoopTry
    \/ LoopSkip
    \/ LoopExit
    \/ ElseReturn

Spec == Init /\ [][Next]_vars

\* attempt runs on; nothing else is scheduled.
FairSpec == Spec /\ WF_vars(Next)

Done == pc = "done"

\* ------------------------------------------------------------ isValid alone

\* isValid applied to one cell of a grid, outside the search.
CheckInit ==
    /\ \E B \in BlankSets, o \in Overwrites : puzzle = InputGrid(B, o)
    /\ input = puzzle
    /\ stack = <<>>
    /\ pc = "check"
    /\ result = FALSE
    /\ wrote = FALSE

CheckCell ==
    /\ pc = "check"
    /\ \E p \in Cells :
        /\ stack' = <<Frame(p[1], p[2])>>
        /\ result' = isValid(puzzle, p[1], p[2])
    /\ pc' = "checked"
    /\ UNCHANGED <<puzzle, input, wrote>>

ValidSpec == CheckInit /\ [][CheckCell]_vars

\* ------------------------------------------------------------ the Sudoku rules

At(g, p) == g[p[1]][p[2]]

SameBlock(p, q) ==
    /\ p[1] \div SUBGRID_SIZE = q[1] \div SUBGRID_SIZE
    /\ p[2] \div SUBGRID_SIZE = q[2] \div SUBGRID_SIZE

\* q is another cell of p's row, column or sub-block.
Peer(p, q) == p # q /\ (p[1] = q[1] \/ p[2] = q[2] \/ SameBlock(p, q))

\* No other cell of p's row, column or sub-block holds p's value.
NoConflict(g, p) == \A q \in Cells : Peer(p, q) => At(g, q) # At(g, p)

\* The rows, the columns and the sub-blocks, each a set of cells.
Units ==
    {{<<r, c>> : c \in Idx} : r \in Idx}
    \cup {{<<r, c>> : r \in Idx} : c \in Idx}
    \cup {{q \in Cells : SameBlock(q, <<br * SUBGRID_SIZE, bc * SUBGRID_SIZE>>)} :
            br \in 0 .. (SUBGRID_SIZE - 1), bc \in 0 .. (SUBGRID_SIZE - 1)}

\* Every row, column and sub-block holds each value of 1..N exactly once.
IsSolvedGrid(g) ==
    \A U \in Units : \A v \in 1 .. PUZZLE_SIZE :
        Cardinality({p \in U : At(g, p) = v}) = 1

IsFull(g) == \A p \in Cells : At(g, p) # UNKOWN_VALUE

\* No two filled cells of one row, column or sub-block hold the same value.
FilledConsistent(g) ==
    \A p \in Cells : At(g, p) # UNKOWN_VALUE => NoConflict(g, p)

CellOf(k) == <<k \div PUZZLE_SIZE, k % PUZZLE_SIZE>>
LastIndex == PUZZLE_SIZE * PUZZLE_SIZE - 1

\* The full grids that fill the unknown cells of g from row-major index k on,
\* each filled cell differing from the cells filled before it.
RECURSIVE Fillings(_, _)
Fillings(g, k) ==
    IF k > LastIndex THEN {g}
    ELSE LET p == CellOf(k)
         IN  IF At(g, p) # UNKOWN_VALUE THEN Fillings(g, k + 1)
             ELSE UNION {Fillings(SetCell(g, p[1], p[2], v), k + 1) :
                            v \in {w \in 1 .. PUZZLE_SIZE :
                                     NoConflict(SetCell(g, p[1], p[2], w), p)}}

\* The rule-valid completions of the grid in: it with its unknown cells filled.
Completions(in) == {h \in Fillings(in, 0) : IsSolvedGrid(h)}

\* g comes before h when the cells unknown in `in` are read in row-major order.
LexLess(g, h, in) ==
    \E k \in 0 .. LastIndex :
        /\ At(in, CellOf(k)) = UNKOWN_VALUE
        /\ At(g, CellOf(k)) < At(h, CellOf(k))
        /\ \A j \in 0 .. (k - 1) : At(g, CellOf(j)) = At(h, CellOf(j))

\* ------------------------------------------------------------ claims

Unknowns(in) == {p \in Cells : At(in, p) = UNKOWN_VALUE}

\* C1: whenever solve returns true, the grid has no unknown cell and every
\* row, column and sub-block holds each value of 1..N exactly once, whatever
\* the given clues were.
C1_SuccessIsSolved ==
    (Done /\ result) => (IsFull(puzzle) /\ IsSolvedGrid(puzzle))

\* C2: for a grid with no unknown cell and a rule violation somewhere,
\* solve returns false.
C2_FullInvalidFails ==
    (Done /\ IsFull(input) /\ ~IsSolvedGrid(input)) => ~result

\* C3: when the input has a rule-valid completion, solve returns true and the
\* grid is the completion that comes first when the cells unknown on input are
\* read in row-major order.
C3_SmallestCompletion ==
    Done =>
        LET S == Completions(input)
        IN  S # {} =>
              /\ result
              /\ puzzle \in S
              /\ \A h \in S : h = puzzle \/ LexLess(puzzle, h, input)

C3_Witness ==
    /\ Done /\ result
    /\ Cardinality(Completions(input)) >= 2
    /\ puzzle # Base

\* C4: when solve returns false the grid equals the input grid, cell for cell.
C4_FailureRestores ==
    (Done /\ ~result) => puzzle = input

C4_Witness ==
    /\ Done /\ ~result /\ wrote
    /\ Cardinality(Unknowns(input)) >= 2
    /\ puzzle = input

\* C5: in every state of the search and in the final grid, a cell that was
\* not unknown on input holds its input value.
C5_CluesKept ==
    \A p \in Cells : At(input, p) # UNKOWN_VALUE => At(puzzle, p) = At(input, p)

C5_Witness ==
    /\ pc = "run" /\ wrote
    /\ puzzle # input
    /\ Len(stack) > 1 /\ Top.pc = "entry"
    /\ At(puzzle, <<Top.r, Top.c>>) # UNKOWN_VALUE

\* C6: on a grid with no unknown cell that is rule-valid, solve returns true
\* and assigns to no cell: the grid is unchanged.
C6_SolvedGridUntouched ==
    IsSolvedGrid(input) =>
        /\ ~wrote
        /\ puzzle = input
        /\ Done => result

C6_Witness ==
    Done /\ IsSolvedGrid(input) /\ result /\ puzzle = input

\* C7: at every recursive call of attempt and at every return from attempt,
\* no two filled cells of one row, column or sub-block hold the same value.
C7_ConsistentAtCallAndReturn ==
    [][(Len(stack) >= 1 /\ Len(stack') # Len(stack)) => FilledConsistent(puzzle')]_vars

\* C8: for a filled cell, isValid is true exactly when no other cell of its
\* row, of its column or of its whole sub-block holds the same value.
C8_IsValidIsNoConflict ==
    (pc = "checked" /\ At(puzzle, <<Top.r, Top.c>>) # UNKOWN_VALUE) =>
        (result <=> NoConflict(puzzle, <<Top.r, Top.c>>))

\* The cell's value is repeated in its sub-block only, off its row and column.
C8_Witness ==
    /\ pc = "checked" /\ ~result
    /\ At(puzzle, <<Top.r, Top.c>>) # UNKOWN_VALUE
    /\ ~isDuplRow(puzzle, Top.r, Top.c)
    /\ ~isDuplCol(puzzle, Top.r, Top.c)

LinearIndex(f) == f.r * PUZZLE_SIZE + f.c

\* Frame k of the stack works on the cell of row-major index k - 1: a frame
\* waiting for its callee, or about to return after it, holds the callee's
\* position; the calls end at (N, 0); a loop counter is in 1..N while a
\* candidate is tried and at most N + 1 at the loop test.
C9_Structure ==
    /\ Len(stack) <= LastIndex + 2
    /\ Done => stack = <<>>
    /\ \A k \in 1 .. Len(stack) :
        LET f == stack[k]
        IN  /\ (k < Len(stack)) <=> (f.pc \in {"if_call", "else_call"})
            /\ LinearIndex(f) =
                 IF f.pc \in {"if_call", "else_call", "else_ret"} THEN k ELSE k - 1
            /\ inBounds(f.r, f.c) \/ (f.r = PUZZLE_SIZE /\ f.c = 0)
            /\ f.pc = "loop" => f.i \in 1 .. (PUZZLE_SIZE + 1)
            /\ f.pc = "if_call" =>
                 /\ f.i \in 1 .. PUZZLE_SIZE
                 /\ At(puzzle, CellOf(k - 1)) = f.i

\* A frame's candidates ascend one by one, and once a candidate has led to
\* success the frame neither assigns nor calls again.
C9_Step ==
    /\ \A k \in 1 .. Len(stack) :
         (k <= Len(stack')
            /\ stack[k].pc \in {"loop", "if_call"}
            /\ stack'[k].pc \in {"loop", "if_call"})
         => stack'[k].i \in {stack[k].i, stack[k].i + 1}
    /\ (Len(stack) >= 1 /\ Top.solved) =>
         (puzzle' = puzzle /\ Len(stack') <= Len(stack))

\* C9: solve eventually returns; each call of attempt is made at the next
\* position in row-major order, an unknown cell tries at most the candidates
\* 1..N in ascending order and none after a success, and the search ends past
\* the last cell at (N, 0) or by unwinding past (0, 0).
C9_Terminates ==
    /\ <>Done
    /\ []C9_Structure
    /\ [][C9_Step]_vars

C9_Witness ==
    /\ Done /\ wrote /\ result
    /\ Cardinality(Unknowns(input)) >= 3

\* C10: whenever solve returns true no cell is unknown, and every cell that
\* was unknown on input holds a value of 1..N that no other cell of its row,
\* column or sub-block holds.
C10_FilledCellsValid ==
    (Done /\ result) =>
        /\ IsFull(puzzle)
        /\ \A p \in Unknowns(input) :
              At(puzzle, p) \in 1 .. PUZZLE_SIZE /\ NoConflict(puzzle, p)

\* A success on clues that contradict each other, with cells to fill.
C10_Witness ==
    /\ Done /\ result
    /\ Unknowns(input) # {}
    /\ ~IsSolvedGrid(puzzle)

====
